---- MODULE Spec2Model ----
(***************************************************************************)
(* Model of the media pipelines of CCmasterbot.                            *)
(*                                                                         *)
(*   modules/videoprocessor.py      schedule_daily -> run_pipeline ->      *)
(*                                  process_and_upload -> post_to_instagram*)
(*   modules/instagram_scheduler.py run_scheduler                          *)
(*   modules/instagram_manager.py   InstagramManager.schedule_post         *)
(*                                                                         *)
(* Each behaviour runs one entry point (prog).  The external collaborators *)
(* (Drive, ffmpeg/ffprobe, the Graph API) answer nondeterministically:     *)
(* every call either returns one of its possible results or raises.  An    *)
(* exception that no handler of the program catches ends the process       *)
(* (pc = "crashed").                                                       *)
(***************************************************************************)
EXTENDS Integers, Sequences, FiniteSets, TLC

VARIABLES
    prog,       \* the entry point that is running
    pc,         \* position of the (single) thread of that entry point
    source,     \* remote source folder: the candidates that are listed
    remote,     \* remote processed/public folder: ids of uploaded objects
    items,      \* the listing of the current sweep (items / files)
    idx,        \* position of the for loop in the listing (1-based)
    job,        \* number of jobs started so far; the current job is job
    tmpfs,      \* the temporary files that exist on the local disk
    url,        \* url of the current job (None until upload returned)
    media_id,   \* media_id of the current post_to_instagram call
    log,        \* history of the calls to the outside and of the returns
    env,        \* the settings (environment variables) that are set
    base,       \* value of job when the current listing was taken
    duration,   \* duration last returned by get_duration
    window,     \* [start, end) last handed to ffmpeg by extract_segment
    stats,      \* main.py: CCmasterbot.stats
    running,    \* main.py: CCmasterbot.running
    cycles,     \* main.py: number of run_single_cycle calls started
    thr,        \* main.py: the threads that run run_single_cycle
    frame,      \* geometry of the frame last composed by an overlay filter
    clock       \* schedule_daily: wall clock, now, next_run and sleep_seconds

vars == <<prog, pc, source, remote, items, idx, job, tmpfs, url, media_id, log,
          env, base, duration, window, stats, running, cycles, thr, frame, clock>>

mainVars == <<stats, running, cycles, thr>>

----------------------------------------------------------------------------
(* Bounds *)

NumCand == 2        \* candidates that may lie in the source folder
MaxJobs == 3        \* jobs started in one behaviour
MaxCycles == 3      \* run_single_cycle calls started in one behaviour
MaxDuration == 200  \* longest source duration probed, in seconds
MaxSweeps == 3      \* iterations of the schedule_daily loop with a clock

Candidates == 1..NumCand

(* Program constants *)

MAX_DURATION == 90

(* Results of the ffprobe call: a duration in seconds, or ProbeError when  *)
(* check_output or float() raises.                                         *)
ProbeError == -1
ProbeOutcomes == {ProbeError, 40, 200}

(* The captions of CaribbeanContentEngine.generate_drafts *)
NumDrafts == 4

(* The threads of main.py that call run_single_cycle: the thread create_app *)
(* starts for start_scheduler, the BackgroundScheduler job "main_cycle"    *)
(* (max_instances=1) and the thread manual_run starts for /run-cycle.      *)
Threads == {"start_scheduler", "main_cycle", "manual_run"}

(* The settings read from the environment when the module is loaded *)
Settings == {"GOOGLE_SERVICE_ACCOUNT", "PROCESSED_FOLDER_ID", "LOGO_FILE"}

----------------------------------------------------------------------------
(* Values *)

None == <<"None", 0>>
Url(n) == <<"url", n>>          \* the download url of the uploaded object n
MediaId(n) == <<"id", n>>       \* the id in the create-media response

Path(kind, n) == <<kind, n>>    \* a temporary path

Title(c) == c                   \* file_obj['title']

(* One entry of the history: the call op made for job j on candidate c,   *)
(* its argument, whether it succeeded, and the value it returned.          *)
Ev(op, j, c, ok, arg, res) ==
    [op |-> op, job |-> j, cand |-> c, ok |-> ok, arg |-> arg, res |-> res]

Min(a, b) == IF a <= b THEN a ELSE b

RECURSIVE Perms(_)
Perms(S) ==
    IF S = {} THEN {<<>>}
    ELSE UNION {{<<x>> \o p : p \in Perms(S \ {x})} : x \in S}

(* The listing of a folder: its non-trashed children, in the order the     *)
(* remote store returns them.                                              *)
GetList(folder) == Perms(folder)

cand == items[idx]

(* schedule_daily(hour=18); times are minutes since midnight of day 0 *)
hour == 18
Day == 1440
StartTimes == {0, 1079, 1080, 1081}     \* the time schedule_daily is started
SweepTimes == {0, 1, 120, 1500}         \* the time one run_pipeline takes

(* a rectangle of pixels: top-left corner and size *)
Rect(x, y, w, h) == [x |-> x, y |-> y, w |-> w, h |-> h]

NoFrame == [fn |-> "none", t |-> 0, canvas |-> <<0, 0>>,
            live |-> Rect(0, 0, 0, 0), logo |-> Rect(0, 0, 0, 0)]

----------------------------------------------------------------------------
Init ==
    /\ prog \in {"videoprocessor", "instagram_scheduler", "instagram_manager", "main",
                "extract_segment", "overlay", "schedule_daily"}
    /\ pc = CASE prog = "videoprocessor" -> "schedule_daily"
              [] prog = "instagram_scheduler" -> "run_scheduler"
              [] prog = "instagram_manager" -> "schedule_post"
              [] prog = "extract_segment" -> "extract_segment"
              [] prog = "overlay" -> "overlay"
              [] prog = "schedule_daily" -> "schedule_daily"
              [] OTHER -> "create_app"
    /\ source \in IF prog \in {"videoprocessor", "instagram_scheduler"}
                   THEN SUBSET Candidates ELSE {{}}
    /\ remote = {}
    /\ items = <<>>
    /\ idx = 0
    /\ job = 0
    /\ tmpfs = {}
    /\ url \in IF prog = "instagram_manager" THEN {None, Url(1)} ELSE {None}
    /\ media_id = None
    /\ log = <<>>
    /\ env \in CASE prog = "videoprocessor" ->
                     {Settings} \cup {Settings \ {s} : s \in Settings}
                [] prog = "main" -> {Settings, Settings \ {"PROCESSED_FOLDER_ID"}}
                [] OTHER -> {Settings}
    /\ base = 0
    /\ duration = 0
    /\ window = <<0, 0>>
    /\ stats = [drafts_created |-> 0, posts_scheduled |-> 0, last_success |-> 0]
    /\ running = FALSE
    /\ cycles = 0
    /\ thr = [t \in Threads |->
                [pc |-> IF t = "start_scheduler" THEN "start_scheduler" ELSE "idle",
                 tmp |-> 0, i |-> 0, uploaded |-> <<>>, failed |-> <<>>]]
    /\ frame = NoFrame
    /\ clock \in [time : IF prog = "schedule_daily" THEN StartTimes ELSE {0},
                  now : {0}, next_run : {0}, sleep_seconds : {0}, ended : {0},
                  sweeps : {0}]

----------------------------------------------------------------------------
(* modules/videoprocessor.py                                               *)

VP == prog = "videoprocessor"

(* variant of the loop step that takes the same file_obj again *)
NextFileObj_again ==
    IF idx < Len(items)
      THEN idx' = idx /\ pc' = "process_and_upload"
      ELSE idx' = idx /\ pc' = "sleep"

(* The for loop of run_pipeline moves to the next file_obj, or run_pipeline *)
(* returns to schedule_daily, which computes next_run and sleeps.          *)
NextFileObj ==
    IF idx < Len(items)
      THEN idx' = idx + 1 /\ pc' = "process_and_upload"
      ELSE idx' = idx /\ pc' = "sleep"

(* get_duration: the ffprobe output as a float, 0 on any exception *)
get_duration(probe) == IF probe = ProbeError THEN 0 ELSE probe

(* variants of the window: without the clamp to MAX_DURATION, and with a   *)
(* start after a skip margin of a tenth of the duration                    *)
segment_window_unclamped(d) == <<0, d>>

segment_window_margin(d) ==
    IF d <= MAX_DURATION THEN <<0, d>>
    ELSE <<d \div 10, d \div 10 + MAX_DURATION>>

(* extract_segment: t = min(duration, MAX_DURATION) and ffmpeg -i input    *)
(* -t t, with no -ss: the segment is the first t seconds of the input.     *)
segment_window(d) == <<0, Min(d, MAX_DURATION)>>

(* extract_segment called on its own, on a file of any duration up to      *)
(* MaxDuration or one that ffprobe cannot read.                            *)
select_segment ==
    /\ prog = "extract_segment" /\ pc = "extract_segment"
    /\ \E probe \in {ProbeError} \cup (0..MaxDuration) :
         /\ duration' = get_duration(probe)
         /\ window' = segment_window(duration')
    /\ pc' = "returned"
    /\ UNCHANGED <<prog, source, remote, items, idx, job, tmpfs, url, media_id, log,
                   env, base, mainVars, frame, clock>>

(* schedule_daily calls run_pipeline, which authenticates first; the key   *)
(* file is SERVICE_ACCOUNT_FILE, and from_json_keyfile_name raises when it *)
(* is None or not a readable key file.                                     *)
authenticate_drive ==
    /\ VP /\ pc = "schedule_daily"
    /\ \E o \in {"ok", "raise"} :
         /\ "GOOGLE_SERVICE_ACCOUNT" \notin env => o = "raise"
         /\ pc' = IF o = "ok" THEN "ListFile" ELSE "crashed"
    /\ UNCHANGED <<prog, source, remote, items, idx, job, tmpfs, url, media_id, log,
                 env, base, duration, window, mainVars, frame, clock>>

(* run_pipeline: items = drive.ListFile(...).GetList(); return if empty *)
ListFile ==
    /\ VP /\ pc = "ListFile"
    /\ \/ /\ pc' = "crashed"
          /\ UNCHANGED <<items, idx, base>>
       \/ \E l \in GetList(source) :
            /\ items' = l
            /\ base' = job
            /\ IF l = <<>>
                 THEN idx' = 0 /\ pc' = "sleep"
                 ELSE idx' = 1 /\ pc' = "process_and_upload"
    /\ UNCHANGED <<prog, source, remote, job, tmpfs, url, media_id, log,
                 env, duration, window, mainVars, frame, clock>>

(* process_and_upload, download: tmp_in is created, GetContentFile fills it *)
GetContentFile ==
    /\ VP /\ pc = "process_and_upload"
    /\ job < MaxJobs
    /\ job' = job + 1
    /\ tmpfs' = tmpfs \cup {Path("input", job')}
    /\ url' = None /\ media_id' = None
    /\ \E ok \in BOOLEAN :
         /\ log' = Append(log, Ev("GetContentFile", job', cand, ok, None, None))
         /\ pc' = IF ok THEN "extract_segment" ELSE "crashed"
    /\ UNCHANGED <<prog, source, remote, items, idx,
                 env, base, duration, window, mainVars, frame, clock>>

(* process_and_upload, segment: tmp_seg is created; extract_segment probes *)
(* the duration and runs ffmpeg -t min(duration, MAX_DURATION); on False   *)
(* input_path is removed and None is returned.                             *)
extract_segment ==
    /\ VP /\ pc = "extract_segment"
    /\ \E probe \in ProbeOutcomes, o \in {"ok", "nonzero", "raise"} :
         /\ duration' = get_duration(probe)
         /\ window' = segment_window(duration')
         /\ log' = IF o = "nonzero"
                     THEN log \o <<Ev("extract_segment", job, cand, FALSE, window', None),
                                   Ev("process_and_upload", job, cand, FALSE, None, None)>>
                     ELSE Append(log, Ev("extract_segment", job, cand, o = "ok", window', None))
         /\ tmpfs' = IF o = "nonzero"
                       THEN (tmpfs \cup {Path("seg", job)}) \ {Path("input", job)}
                       ELSE tmpfs \cup {Path("seg", job)}
         /\ CASE o = "ok" -> pc' = "add_bounce_logo" /\ idx' = idx
              [] o = "nonzero" -> NextFileObj
              [] OTHER -> pc' = "crashed" /\ idx' = idx
    /\ UNCHANGED <<prog, source, remote, items, job, url, media_id,
                 env, base, mainVars, frame, clock>>

(* process_and_upload, logo bounce: tmp_final is created; on False         *)
(* input_path and seg_path are removed and None is returned.  With         *)
(* LOGO_FILE unset the argument list holds None and subprocess.run raises. *)
add_bounce_logo ==
    /\ VP /\ pc = "add_bounce_logo"
    /\ \E o \in {"ok", "nonzero", "raise"} :
         /\ "LOGO_FILE" \notin env => o = "raise"
         /\ log' = IF o = "nonzero"
                     THEN log \o <<Ev("add_bounce_logo", job, cand, FALSE, None, None),
                                   Ev("process_and_upload", job, cand, FALSE, None, None)>>
                     ELSE Append(log, Ev("add_bounce_logo", job, cand, o = "ok", None, None))
         /\ tmpfs' = IF o = "nonzero"
                       THEN (tmpfs \cup {Path("final", job)})
                              \ {Path("input", job), Path("seg", job)}
                       ELSE tmpfs \cup {Path("final", job)}
         /\ CASE o = "ok" -> pc' = "upload_to_drive" /\ idx' = idx
              [] o = "nonzero" -> NextFileObj
              [] OTHER -> pc' = "crashed" /\ idx' = idx
    /\ UNCHANGED <<prog, source, remote, items, job, url, media_id,
                 env, base, duration, window, mainVars, frame, clock>>

(* upload_to_drive: CreateFile, SetContentFile, Upload, InsertPermission;  *)
(* Upload or InsertPermission may raise, the latter with the object made.  *)
upload_to_drive ==
    /\ VP /\ pc = "upload_to_drive"
    /\ \E o \in {"ok", "Upload raises", "InsertPermission raises"} :
         /\ remote' = IF o = "Upload raises" THEN remote ELSE remote \cup {job}
         /\ url' = IF o = "ok" THEN Url(job) ELSE url
         /\ log' = Append(log, Ev("upload", job, cand, o = "ok", Path("final", job),
                                  IF o = "ok" THEN Url(job) ELSE None))
         /\ pc' = IF o = "ok" THEN "Delete" ELSE "crashed"
    /\ UNCHANGED <<prog, source, items, idx, job, tmpfs, media_id,
                 env, base, duration, window, mainVars, frame, clock>>

(* process_and_upload, cleanup and delete original: the three temporary    *)
(* files are removed, then file_obj.Delete() and return url.               *)
Delete ==
    /\ VP /\ pc = "Delete"
    /\ tmpfs' = tmpfs \ {Path("input", job), Path("seg", job), Path("final", job)}
    /\ \E ok \in BOOLEAN :
         /\ source' = IF ok THEN source \ {cand} ELSE source
         /\ log' = IF ok
                     THEN log \o <<Ev("Delete", job, cand, TRUE, None, None),
                                   Ev("process_and_upload", job, cand, TRUE, None, url)>>
                     ELSE Append(log, Ev("Delete", job, cand, FALSE, None, None))
         /\ pc' = IF ok THEN "post_to_instagram" ELSE "crashed"
    /\ UNCHANGED <<prog, remote, items, idx, job, url, media_id,
                 env, base, duration, window, mainVars, frame, clock>>

(* run_pipeline: if url: post_to_instagram(url).  Step 1, create media     *)
(* object: status_code != 200 returns False; otherwise media_id is         *)
(* resp.json().get("id").                                                  *)
post_to_instagram ==
    /\ VP /\ pc = "post_to_instagram"
    /\ url # None
    /\ \E o \in {"200 id", "200 no id", "not 200", "post raises", "json raises"} :
         /\ media_id' = IF o = "200 id" THEN MediaId(job) ELSE None
         /\ log' = IF o = "not 200"
                     THEN log \o <<Ev("create", job, cand, FALSE, url, None),
                                   Ev("post_to_instagram", job, cand, FALSE, None, None)>>
                     ELSE Append(log, Ev("create", job, cand,
                                         o \in {"200 id", "200 no id", "json raises"},
                                         url, media_id'))
         /\ CASE o \in {"200 id", "200 no id"} -> pc' = "media_publish" /\ idx' = idx
              [] o = "not 200" -> NextFileObj
              [] OTHER -> pc' = "crashed" /\ idx' = idx
    /\ UNCHANGED <<prog, source, remote, items, job, tmpfs, url,
                 env, base, duration, window, mainVars, frame, clock>>

(* variant of step 2 that sends no creation_id *)
media_publish_without_id ==
    /\ VP /\ pc = "media_publish"
    /\ \E o \in {"200", "not 200", "post raises"} :
         /\ log' = IF o = "post raises"
                     THEN Append(log, Ev("publish", job, cand, FALSE, None, None))
                     ELSE log \o <<Ev("publish", job, cand, o = "200", None, None),
                                   Ev("post_to_instagram", job, cand, o = "200", None, None)>>
         /\ IF o = "post raises"
              THEN pc' = "crashed" /\ idx' = idx
              ELSE NextFileObj
    /\ UNCHANGED <<prog, source, remote, items, job, tmpfs, url, media_id,
                 env, base, duration, window, mainVars, frame, clock>>

(* post_to_instagram, step 2: publish with creation_id = media_id *)
media_publish ==
    /\ VP /\ pc = "media_publish"
    /\ \E o \in {"200", "not 200", "post raises"} :
         /\ log' = IF o = "post raises"
                     THEN Append(log, Ev("publish", job, cand, FALSE, media_id, None))
                     ELSE log \o <<Ev("publish", job, cand, o = "200", media_id, None),
                                   Ev("post_to_instagram", job, cand, o = "200", None, None)>>
         /\ IF o = "post raises"
              THEN pc' = "crashed" /\ idx' = idx
              ELSE NextFileObj
    /\ UNCHANGED <<prog, source, remote, items, job, tmpfs, url, media_id,
                 env, base, duration, window, mainVars, frame, clock>>

(* variant of the end of a sweep: schedule_daily without its loop *)
sleep_returns ==
    /\ VP /\ pc = "sleep"
    /\ pc' = "crashed"
    /\ UNCHANGED <<prog, source, remote, items, idx, job, tmpfs, url, media_id, log,
                 env, base, duration, window, mainVars, frame, clock>>

(* schedule_daily: time.sleep until next_run, then the next iteration *)
sleep ==
    /\ VP /\ pc = "sleep"
    /\ pc' = "schedule_daily"
    /\ UNCHANGED <<prog, source, remote, items, idx, job, tmpfs, url, media_id, log,
                 env, base, duration, window, mainVars, frame, clock>>

vpNext ==
    \/ authenticate_drive \/ ListFile \/ GetContentFile \/ extract_segment
    \/ add_bounce_logo \/ upload_to_drive \/ Delete \/ post_to_instagram
    \/ media_publish \/ sleep

----------------------------------------------------------------------------
(* modules/instagram_scheduler.py                                          *)

IS == prog = "instagram_scheduler"

(* The for loop of run_scheduler moves to the next file, or the loop body  *)
(* ends with time.sleep(60).                                               *)
NextFile ==
    IF idx < Len(items)
      THEN idx' = idx + 1 /\ pc' = "tmp_input"
      ELSE idx' = idx /\ pc' = "sleep60"

(* run_scheduler: drive = authenticate_drive(), outside the while loop *)
run_scheduler ==
    /\ IS /\ pc = "run_scheduler"
    /\ \E o \in {"ok", "raise"} :
         pc' = IF o = "ok" THEN "files" ELSE "crashed"
    /\ UNCHANGED <<prog, source, remote, items, idx, job, tmpfs, url, media_id, log,
                 env, base, duration, window, mainVars, frame, clock>>

(* while True: files = ...GetList(); if not files: sleep(30); continue *)
files ==
    /\ IS /\ pc = "files"
    /\ \/ /\ pc' = "crashed"
          /\ UNCHANGED <<items, idx, base>>
       \/ \E l \in GetList(source) :
            /\ items' = l
            /\ base' = job
            /\ IF l = <<>>
                 THEN idx' = 0 /\ pc' = "sleep30"
                 ELSE idx' = 1 /\ pc' = "tmp_input"
    /\ UNCHANGED <<prog, source, remote, job, tmpfs, url, media_id, log,
                 env, duration, window, mainVars, frame, clock>>

(* for f in files: tmp_input is created and f.GetContentFile fills it *)
tmp_input ==
    /\ IS /\ pc = "tmp_input"
    /\ job < MaxJobs
    /\ job' = job + 1
    /\ tmpfs' = tmpfs \cup {Path("input", job')}
    /\ url' = None
    /\ \E ok \in BOOLEAN :
         /\ log' = Append(log, Ev("GetContentFile", job', cand, ok, None, None))
         /\ pc' = IF ok THEN "process_video" ELSE "crashed"
    /\ UNCHANGED <<prog, source, remote, items, idx, media_id,
                 env, base, duration, window, mainVars, frame, clock>>

(* process_video writes tmp_output = TEMP_DIR/processed_<title>; on False  *)
(* tmp_input is removed and the loop continues.  A failed ffmpeg run may   *)
(* or may not leave an output file behind.                                 *)
process_video ==
    /\ IS /\ pc = "process_video"
    /\ \E o \in {"ok", "nonzero", "raise"}, written \in BOOLEAN :
         /\ o = "ok" => written
         /\ o = "raise" => ~written
         /\ log' = Append(log, Ev("process_video", job, cand, o = "ok", None, None))
         /\ tmpfs' = (tmpfs \cup (IF written THEN {Path("processed", Title(cand))} ELSE {}))
                       \ (IF o = "nonzero" THEN {Path("input", job)} ELSE {})
         /\ CASE o = "ok" -> pc' = "upload_to_public_drive" /\ idx' = idx
              [] o = "nonzero" -> NextFile
              [] OTHER -> pc' = "crashed" /\ idx' = idx
    /\ UNCHANGED <<prog, source, remote, items, job, url, media_id,
                 env, base, duration, window, mainVars, frame, clock>>

(* upload_to_public_drive: CreateFile, SetContentFile, Upload,             *)
(* InsertPermission, return the download url                               *)
upload_to_public_drive ==
    /\ IS /\ pc = "upload_to_public_drive"
    /\ \E o \in {"ok", "Upload raises", "InsertPermission raises"} :
         /\ remote' = IF o = "Upload raises" THEN remote ELSE remote \cup {job}
         /\ url' = IF o = "ok" THEN Url(job) ELSE url
         /\ log' = Append(log, Ev("upload", job, cand, o = "ok",
                                  Path("processed", Title(cand)),
                                  IF o = "ok" THEN Url(job) ELSE None))
         /\ pc' = IF o = "ok" THEN "schedule_instagram_reel" ELSE "crashed"
    /\ UNCHANGED <<prog, source, items, idx, job, tmpfs, media_id,
                 env, base, duration, window, mainVars, frame, clock>>

(* schedule_instagram_reel: one POST to /media; "id" not in resp returns   *)
(* False, otherwise True.  run_scheduler ignores the result, removes       *)
(* tmp_input and tmp_output and goes on with the next file.                *)
schedule_instagram_reel ==
    /\ IS /\ pc = "schedule_instagram_reel"
    /\ \E o \in {"id", "no id", "raise"} :
         /\ log' = IF o = "raise"
                     THEN Append(log, Ev("create", job, cand, FALSE, url, None))
                     ELSE log \o <<Ev("create", job, cand, o = "id", url,
                                      IF o = "id" THEN MediaId(job) ELSE None),
                                   Ev("schedule_instagram_reel", job, cand, o = "id", None, None)>>
         /\ IF o = "raise"
              THEN /\ pc' = "crashed" /\ idx' = idx
                   /\ tmpfs' = tmpfs
              ELSE /\ NextFile
                   /\ tmpfs' = tmpfs \ {Path("input", job), Path("processed", Title(cand))}
    /\ UNCHANGED <<prog, source, remote, items, job, url, media_id,
                 env, base, duration, window, mainVars, frame, clock>>

(* time.sleep(30) with no files, time.sleep(60) after the for loop *)
is_sleep ==
    /\ IS /\ pc \in {"sleep30", "sleep60"}
    /\ pc' = "files"
    /\ UNCHANGED <<prog, source, remote, items, idx, job, tmpfs, url, media_id, log,
                 env, base, duration, window, mainVars, frame, clock>>

isNext ==
    \/ run_scheduler \/ files \/ tmp_input \/ process_video
    \/ upload_to_public_drive \/ schedule_instagram_reel \/ is_sleep

(* subprocess.run, file.Upload() and requests.post are called without a    *)
(* timeout: a call that gets no answer never returns, and the single       *)
(* thread of the loop stays inside it.                                     *)
ExternalCalls ==
    {"extract_segment", "add_bounce_logo", "upload_to_drive", "post_to_instagram",
     "media_publish", "process_video", "upload_to_public_drive",
     "schedule_instagram_reel"}

never_returns ==
    /\ VP \/ IS
    /\ pc \in ExternalCalls
    /\ pc' = "blocked"
    /\ UNCHANGED <<prog, source, remote, items, idx, job, tmpfs, url, media_id, log,
                   env, base, duration, window, mainVars, frame, clock>>

----------------------------------------------------------------------------
(* modules/instagram_manager.py                                            *)

(* InstagramManager.schedule_post(draft): False without public_media_url   *)
(* or without credentials; otherwise one POST to /media, False when "id"   *)
(* is not in the response, True when it is.  url is the draft's            *)
(* public_media_url.                                                       *)
schedule_post ==
    /\ prog = "instagram_manager" /\ pc = "schedule_post"
    /\ job' = job + 1
    /\ \E credentials \in BOOLEAN, o \in {"id", "no id", "raise"} :
         IF url = None \/ ~credentials
           THEN /\ log' = Append(log, Ev("schedule_post", job', 0, FALSE, None, None))
                /\ pc' = "returned"
           ELSE /\ log' = IF o = "raise"
                            THEN Append(log, Ev("create", job', 0, FALSE, url, None))
                            ELSE log \o <<Ev("create", job', 0, o = "id", url,
                                             IF o = "id" THEN MediaId(job') ELSE None),
                                          Ev("schedule_post", job', 0, o = "id", None, None)>>
                /\ pc' = IF o = "raise" THEN "crashed" ELSE "returned"
    /\ UNCHANGED <<prog, source, remote, items, idx, tmpfs, url, media_id,
                 env, base, duration, window, mainVars, frame, clock>>

----------------------------------------------------------------------------
(* main.py, modules/cloud_storage.py, modules/content_engine.py            *)

MAIN == prog = "main"

pipeVars == <<pc, source, items, idx, job, tmpfs, url, media_id, base, duration, window>>

(* generate_drafts() + process_new_links(): one dictionary per caption,    *)
(* with media_path None and no key that holds a file path;                 *)
(* process_new_links returns [].  path is the string under the first       *)
(* recognised path key of the dictionary, None when there is none.         *)
Drafts == [k \in 1..NumDrafts |-> [source |-> "content_engine", path |-> None]]

(* CloudStorage._extract_file_path on a dictionary: the value of the first *)
(* recognised key, ValueError when no key holds a string                   *)
extract_file_path(draft) ==
    IF draft.path = None THEN [error |-> "ValueError", path |-> None]
                         ELSE [error |-> "", path |-> draft.path]

(* variant of upload_media that does not look for the file path *)
upload_media_unchecked(draft, o) ==
    IF "PROCESSED_FOLDER_ID" \notin env THEN "RuntimeError"
    ELSE IF o # "ok" THEN "RuntimeError"
    ELSE "url"

(* CloudStorage.upload_media: RuntimeError without PROCESSED_FOLDER_ID,    *)
(* the error of _extract_file_path, RuntimeError when the file does not    *)
(* exist, RuntimeError when CreateFile/Upload/InsertPermission raises (o), *)
(* otherwise the url.                                                      *)
upload_media(draft, o) ==
    IF "PROCESSED_FOLDER_ID" \notin env THEN "RuntimeError"
    ELSE IF extract_file_path(draft).error # "" THEN extract_file_path(draft).error
    ELSE IF extract_file_path(draft).path \notin tmpfs THEN "RuntimeError"
    ELSE IF o # "ok" THEN "RuntimeError"
    ELSE "url"

(* start_scheduler: ImportError returns; otherwise add_job, start(),       *)
(* running = True and the immediate first cycle; any exception is logged.  *)
start_scheduler ==
    /\ MAIN /\ thr["start_scheduler"].pc = "start_scheduler"
    /\ \E o \in {"ok", "ImportError", "raise"} :
         /\ running' = (o = "ok")
         /\ thr' = [thr EXCEPT !["start_scheduler"].pc =
                        IF o = "ok" THEN "run_single_cycle" ELSE "done"]
    /\ UNCHANGED <<prog, env, remote, log, stats, cycles, pipeVars, frame, clock>>

(* The IntervalTrigger of the job "main_cycle" fires; with max_instances=1 *)
(* the run is skipped while an instance of the job is still running.       *)
IntervalTrigger ==
    /\ MAIN /\ running
    /\ thr["main_cycle"].pc = "idle"
    /\ thr' = [thr EXCEPT !["main_cycle"].pc = "run_single_cycle"]
    /\ UNCHANGED <<prog, env, remote, log, stats, running, cycles, pipeVars, frame, clock>>

(* GET /run-cycle: Thread(target=app.bot.run_single_cycle).start() *)
manual_run ==
    /\ MAIN /\ thr["manual_run"].pc = "idle"
    /\ thr' = [thr EXCEPT !["manual_run"].pc = "run_single_cycle"]
    /\ UNCHANGED <<prog, env, remote, log, stats, running, cycles, pipeVars, frame, clock>>

(* run_single_cycle up to the load of stats["drafts_created"]: the drafts  *)
(* are generated (never empty) and the old counter value is read.          *)
run_single_cycle ==
    /\ MAIN /\ cycles < MaxCycles
    /\ \E t \in Threads :
         /\ thr[t].pc = "run_single_cycle"
         /\ thr' = [thr EXCEPT ![t] = [pc |-> "drafts_created",
                                       tmp |-> stats.drafts_created,
                                       i |-> 0, uploaded |-> <<>>, failed |-> <<>>]]
    /\ cycles' = cycles + 1
    /\ UNCHANGED <<prog, env, remote, log, stats, running, pipeVars, frame, clock>>

(* stats["drafts_created"] += len(drafts): the store of old value + len;   *)
(* then schedule_drafts and the upload loop.                               *)
drafts_created ==
    /\ MAIN
    /\ \E t \in Threads :
         /\ thr[t].pc = "drafts_created"
         /\ stats' = [stats EXCEPT !.drafts_created = thr[t].tmp + Len(Drafts)]
         /\ thr' = [thr EXCEPT ![t].pc = "upload_media", ![t].i = 1]
    /\ UNCHANGED <<prog, env, remote, log, running, cycles, pipeVars, frame, clock>>

(* variant of the upload loop without the try/except around one draft: an  *)
(* exception of upload_media ends the cycle                                *)
upload_draft_uncaught ==
    /\ MAIN
    /\ \E t \in Threads, o \in {"ok", "raise"} :
         LET r == upload_media(Drafts[thr[t].i], o)
             n == Cardinality(remote) + 1
             last == thr[t].i = Len(Drafts)
         IN  /\ thr[t].pc = "upload_media"
             /\ remote' = IF r = "url" THEN remote \cup {n} ELSE remote
             /\ log' = IF r = "url"
                         THEN Append(log, Ev("upload", 0, thr[t].i, TRUE,
                                             extract_file_path(Drafts[thr[t].i]).path, Url(n)))
                         ELSE log
             /\ thr' = IF r = "url"
                         THEN [thr EXCEPT
                                 ![t].uploaded = Append(@, thr[t].i),
                                 ![t].i = IF last THEN 1 ELSE @ + 1,
                                 ![t].pc = IF last THEN "auto_post" ELSE @]
                         ELSE [thr EXCEPT
                                 ![t].failed = Append(@, thr[t].i),
                                 ![t].pc = IF t = "start_scheduler" THEN "done" ELSE "idle"]
    /\ UNCHANGED <<prog, env, stats, running, cycles, pipeVars, frame, clock>>

(* for i, draft in enumerate(scheduled): url = upload_media(draft); a url  *)
(* puts the draft into uploaded, an exception is logged and the loop       *)
(* continues.                                                              *)
upload_draft ==
    /\ MAIN
    /\ \E t \in Threads, o \in {"ok", "raise"} :
         LET r == upload_media(Drafts[thr[t].i], o)
             n == Cardinality(remote) + 1
             last == thr[t].i = Len(Drafts)
         IN  /\ thr[t].pc = "upload_media"
             /\ remote' = IF r = "url" THEN remote \cup {n} ELSE remote
             /\ log' = IF r = "url"
                         THEN Append(log, Ev("upload", 0, thr[t].i, TRUE,
                                             extract_file_path(Drafts[thr[t].i]).path, Url(n)))
                         ELSE log
             /\ thr' = [thr EXCEPT
                          ![t].uploaded = IF r = "url" THEN Append(@, thr[t].i) ELSE @,
                          ![t].failed = IF r = "url" THEN @ ELSE Append(@, thr[t].i),
                          ![t].i = IF last THEN 1 ELSE @ + 1,
                          ![t].pc = IF last THEN "auto_post" ELSE @]
    /\ UNCHANGED <<prog, env, stats, running, cycles, pipeVars, frame, clock>>

(* variant of the posting loop that posts every scheduled draft, uploaded  *)
(* or not                                                                  *)
auto_post_scheduled ==
    /\ MAIN
    /\ \E t \in Threads, o \in {"id", "no id", "raise"} :
         /\ thr[t].pc \in {"auto_post", "posts_scheduled"}
         /\ IF thr[t].pc = "posts_scheduled"
              THEN /\ stats' = [stats EXCEPT !.posts_scheduled = thr[t].tmp + 1]
                   /\ thr' = [thr EXCEPT ![t].pc = "auto_post", ![t].i = @ + 1]
                   /\ log' = log
              ELSE IF thr[t].i <= Len(Drafts)
              THEN /\ stats' = stats
                   /\ log' = Append(log, Ev("create", 0, thr[t].i,
                                            o = "id", None, None))
                   /\ thr' = IF o = "id"
                               THEN [thr EXCEPT ![t].pc = "posts_scheduled",
                                                ![t].tmp = stats.posts_scheduled]
                               ELSE [thr EXCEPT ![t].i = @ + 1]
              ELSE /\ stats' = [stats EXCEPT !.last_success = 1]
                   /\ thr' = [thr EXCEPT ![t].pc =
                                  IF t = "start_scheduler" THEN "done" ELSE "idle"]
                   /\ log' = log
    /\ UNCHANGED <<prog, env, remote, running, cycles, pipeVars, frame, clock>>

(* if auto_post and uploaded: for draft in uploaded: schedule_post(draft), *)
(* True gives stats["posts_scheduled"] += 1 (load, then store), an         *)
(* exception is logged; then last_success and next_run are set.            *)
auto_post ==
    /\ MAIN
    /\ \E t \in Threads, o \in {"id", "no id", "raise"} :
         /\ thr[t].pc \in {"auto_post", "posts_scheduled"}
         /\ IF thr[t].pc = "posts_scheduled"
              THEN /\ stats' = [stats EXCEPT !.posts_scheduled = thr[t].tmp + 1]
                   /\ thr' = [thr EXCEPT ![t].pc = "auto_post", ![t].i = @ + 1]
                   /\ log' = log
              ELSE IF thr[t].i <= Len(thr[t].uploaded)
              THEN /\ stats' = stats
                   /\ log' = Append(log, Ev("create", 0, thr[t].uploaded[thr[t].i],
                                            o = "id", None, None))
                   /\ thr' = IF o = "id"
                               THEN [thr EXCEPT ![t].pc = "posts_scheduled",
                                                ![t].tmp = stats.posts_scheduled]
                               ELSE [thr EXCEPT ![t].i = @ + 1]
              ELSE /\ stats' = [stats EXCEPT !.last_success = 1]
                   /\ thr' = [thr EXCEPT ![t].pc =
                                  IF t = "start_scheduler" THEN "done" ELSE "idle"]
                   /\ log' = log
    /\ UNCHANGED <<prog, env, remote, running, cycles, pipeVars, frame, clock>>

mainNext ==
    \/ start_scheduler \/ IntervalTrigger \/ manual_run \/ run_single_cycle
    \/ drafts_created \/ upload_draft \/ auto_post

----------------------------------------------------------------------------
(* The overlay filters: add_bounce_logo (videoprocessor.py) and            *)
(* process_video (instagram_scheduler.py)                                  *)

BounceCap == 30

(* sizes <<width, height>> of the source videos and of the logo images     *)
Sources == {<<1920, 1080>>, <<1920, 840>>, <<1080, 1920>>}
Logos == {<<400, 100>>, <<400, 400>>}

(* sin and cos of ffmpeg's expression evaluator, in thousandths, of an     *)
(* angle in tenths of a degree (Bhaskara's formula, within 3 thousandths)  *)
bhaskara(x) == (40 * x * (1800 - x)) \div ((4050000 - x * (1800 - x)) \div 100)

sin(a) ==
    LET m == a % 3600
    IN  IF m <= 1800 THEN bhaskara(m) ELSE 0 - bhaskara(m - 1800)

cos(a) == sin(a + 900)

(* scale=W:H:force_original_aspect_ratio=decrease: the largest size of the *)
(* source's aspect ratio that fits into W x H                              *)
scale_decrease(src, W, H) ==
    IF src[1] * H >= src[2] * W
      THEN <<W, (src[2] * W) \div src[1]>>
      ELSE <<(src[1] * H) \div src[2], H>>

(* add_bounce_logo: [bg] is the source scaled into 1920x1080 and padded    *)
(* around its centre, [logo] is 400 wide, and the overlay is at            *)
(* x = (W-w)/2 + 120*sin(2.1*PI*t/10) + 80*cos(1.6*PI*t/6),                *)
(* y = if(gt(Y,H/9), (H/9-h)/2, if(lt(Y,8*H/9), (H/9-h)/2, 0)),            *)
(* where Y is whatever value the evaluator gives that name.                *)
bounce_filter(src, logo, t, Y) ==
    LET W == 1920
        H == 1080
        bg == scale_decrease(src, W, H)
        w == 400
        h == (logo[2] * 400) \div logo[1]
        x == (W - w) \div 2 + (120 * sin(378 * t)) \div 1000
                            + (80 * cos(480 * t)) \div 1000
        y == IF Y > H \div 9 THEN (H \div 9 - h) \div 2
             ELSE IF Y < (8 * H) \div 9 THEN (H \div 9 - h) \div 2
             ELSE 0
    IN  [fn |-> "add_bounce_logo", t |-> t, canvas |-> <<W, H>>,
         live |-> Rect((W - bg[1]) \div 2, (H - bg[2]) \div 2, bg[1], bg[2]),
         logo |-> Rect(x, y, w, h)]

(* process_video: [bg] is the source scaled and cropped to 1080x608 and    *)
(* padded to 1080x1920 at offset 0:656, [logo] is 350 wide, and the        *)
(* overlay is at x = (W-w)/2 + 120*sin(2*PI*t/10),                         *)
(* y = 280 + 90*sin(2*PI*t/8).                                             *)
filter_chain(src, logo, t) ==
    LET W == 1080
        H == 1920
        w == 350
        h == (logo[2] * 350) \div logo[1]
        x == (W - w) \div 2 + (120 * sin(360 * t)) \div 1000
        y == 280 + (90 * sin(450 * t)) \div 1000
    IN  [fn |-> "process_video", t |-> t, canvas |-> <<W, H>>,
         live |-> Rect(0, 656, 1080, 608),
         logo |-> Rect(x, y, w, h)]

(* one frame, at time t of the output, composed by one of the two filters  *)
overlay ==
    /\ prog = "overlay" /\ pc = "overlay"
    /\ \E src \in Sources, logo \in Logos, t \in 0..BounceCap, Y \in {0, 540, 1000} :
         frame' \in {bounce_filter(src, logo, t, Y), filter_chain(src, logo, t)}
    /\ pc' = "returned"
    /\ UNCHANGED <<prog, source, remote, items, idx, job, tmpfs, url, media_id, log,
                   env, base, duration, window, mainVars, clock>>

----------------------------------------------------------------------------
(* schedule_daily with its clock; run_pipeline is the sweep modelled under *)
(* prog = "videoprocessor", here only the time d it takes.                 *)

(* datetime.combine(now.date(), datetime.min.time()) + timedelta(hours=hour), *)
(* plus one day if that is before now                                         *)
next_run(now) ==
    LET today == (now \div Day) * Day + hour * 60
    IN  IF today < now THEN today + Day ELSE today

(* now = datetime.now(); run_pipeline(); next_run; sleep_seconds *)
schedule_daily ==
    /\ prog = "schedule_daily" /\ pc = "schedule_daily"
    /\ clock.sweeps < MaxSweeps
    /\ \E d \in SweepTimes :
         clock' = [time |-> clock.time + d,
                   now |-> clock.time,
                   next_run |-> next_run(clock.time),
                   sleep_seconds |-> next_run(clock.time) - clock.time,
                   ended |-> clock.time + d,
                   sweeps |-> clock.sweeps + 1]
    /\ pc' = "time.sleep"
    /\ UNCHANGED <<prog, source, remote, items, idx, job, tmpfs, url, media_id, log,
                   env, base, duration, window, mainVars, frame>>

(* time.sleep(sleep_seconds), then the next iteration of while True *)
time_sleep ==
    /\ prog = "schedule_daily" /\ pc = "time.sleep"
    /\ clock' = [clock EXCEPT !.time = @ + clock.sleep_seconds]
    /\ pc' = "schedule_daily"
    /\ UNCHANGED <<prog, source, remote, items, idx, job, tmpfs, url, media_id, log,
                   env, base, duration, window, mainVars, frame>>

----------------------------------------------------------------------------
Next ==
    \/ vpNext \/ isNext \/ never_returns \/ select_segment \/ overlay
    \/ schedule_daily \/ time_sleep \/ schedule_post \/ mainNext

Spec == Init /\ [][Next]_vars

----------------------------------------------------------------------------
(* Reading the history *)

(* call op of job j succeeded before position i of the history *)
Before(i, op, j) ==
    \E k \in 1..(i - 1) : log[k].op = op /\ log[k].job = j /\ log[k].ok

(* call op of job j was issued after position i of the history *)
After(i, ops, j) ==
    \E k \in (i + 1)..Len(log) : log[k].op \in ops /\ log[k].job = j

(* the candidate job j works on: every job starts with GetContentFile *)
CandOf(j) ==
    LET i == CHOOSE k \in DOMAIN log : log[k].job = j IN log[i].cand

(* the temporary paths job j allocates *)
TempsOf(j) ==
    IF VP
      THEN {Path("input", j), Path("seg", j), Path("final", j)}
      ELSE {Path("input", j), Path("processed", Title(CandOf(j)))}

(* a transcoder call of job j failed *)
TranscodeFailed(j) ==
    \E i \in DOMAIN log :
        /\ log[i].job = j /\ ~log[i].ok
        /\ log[i].op \in {"extract_segment", "add_bounce_logo", "process_video"}

(* the thread is inside the body of the current job *)
InJob ==
    pc \in {"extract_segment", "add_bounce_logo", "upload_to_drive", "Delete",
            "process_video", "upload_to_public_drive", "schedule_instagram_reel",
            "blocked"}

(* the thread is inside a sweep of the scheduling loop *)
InSweep ==
    \/ VP /\ pc \notin {"sleep", "crashed"}
    \/ IS /\ pc \notin {"run_scheduler", "sleep30", "sleep60", "crashed"}

PostReturns == {"post_to_instagram", "schedule_instagram_reel", "schedule_post"}

----------------------------------------------------------------------------
(* Claims *)

(* C1: in a run_pipeline sweep the original of a candidate is deleted only *)
(* after the create-media call and the media_publish call of that          *)
(* candidate's job have both returned success.                             *)
C1_DeleteOnlyAfterPublished ==
    VP => \A i \in DOMAIN log :
            (log[i].op = "Delete" /\ log[i].ok) =>
                /\ Before(i, "create", log[i].job)
                /\ Before(i, "publish", log[i].job)

(* C2: schedule_post, schedule_instagram_reel or post_to_instagram returns *)
(* True only if both the create-media call and the media_publish call were *)
(* issued for that draft or candidate and both returned success.           *)
C2_PostedOnlyAfterBothPhases ==
    \A i \in DOMAIN log :
        (log[i].op \in PostReturns /\ log[i].ok) =>
            /\ Before(i, "create", log[i].job)
            /\ Before(i, "publish", log[i].job)

(* C3: when process_and_upload returns None because extract_segment or     *)
(* add_bounce_logo returned False, none of the temporary files of that job *)
(* exists any more.                                                        *)
C3_NoTempAfterTranscodeFailure ==
    VP => \A i \in DOMAIN log :
            (log[i].op = "process_and_upload" /\ ~log[i].ok) =>
                TempsOf(log[i].job) \cap tmpfs = {}

(* C4: once the orchestrator has left a job by any path other than a       *)
(* transcode failure (download error, upload error, delete error, full     *)
(* success), no temporary path of that job exists any more.                *)
C4_NoTempAfterOtherExits ==
    (VP \/ IS) =>
        \A j \in 1..job :
            ((j < job \/ ~InJob) /\ ~TranscodeFailed(j)) =>
                TempsOf(j) \cap tmpfs = {}

(* C5: a run_pipeline sweep never ends, by returning or by an error, while *)
(* a listed candidate has not been attempted.                              *)
C5_EveryListedCandidateAttempted ==
    (VP /\ pc \in {"sleep", "crashed"}) => idx = Len(items)

(* C6: no step of a sweep ends the schedule_daily loop or the              *)
(* run_scheduler loop: whatever happens in the sweep, the loop goes on to  *)
(* its sleep and to the next sweep.                                        *)
C6_SweepNeverEndsLoop ==
    [][InSweep => pc' # "crashed"]_vars

(* C7: if the create-media response holds no id, post_to_instagram never   *)
(* issues the media_publish call and never returns True.                   *)
C7_NoPublishWithoutId ==
    VP => \A i \in DOMAIN log :
            (log[i].op = "create" /\ log[i].ok /\ log[i].res = None) =>
                /\ ~After(i, {"publish"}, log[i].job)
                /\ \A k \in DOMAIN log :
                     (log[k].op = "post_to_instagram" /\ log[k].job = log[i].job)
                        => ~log[k].ok

(* C8: when get_duration yields 0 the window is [0, 0) and the job fails   *)
(* at the segment stage: no overlay, upload, delete or publish follows.    *)
C8_ProbeFailureFailsSegment ==
    VP => \A i \in DOMAIN log :
            (log[i].op = "extract_segment" /\ log[i].arg = <<0, 0>>) =>
                /\ ~log[i].ok
                /\ ~After(i, {"add_bounce_logo", "upload", "Delete", "create", "publish"},
                          log[i].job)

(* C9: a failed delete of the original does not end the job or the sweep:  *)
(* the create call of that job is still issued.                            *)
C9_DeleteFailureIsBestEffort ==
    VP => \A i \in DOMAIN log :
            (log[i].op = "Delete" /\ ~log[i].ok) =>
                /\ pc # "crashed"
                /\ pc = "post_to_instagram" \/ After(i, {"create"}, log[i].job)

(* C10: once a job of a candidate has been posted, no later job is started *)
(* for that candidate.                                                     *)
C10_PostedCandidateNotProcessedAgain ==
    \A i \in DOMAIN log : \A k \in DOMAIN log :
        (/\ i < k
         /\ log[i].op \in PostReturns /\ log[i].ok
         /\ log[k].op = "GetContentFile") =>
            log[k].cand # log[i].cand

(* the temporary paths job j has created or handed to the transcoder *)
Used(j) ==
    {Path("input", j)}
    \cup (IF \E i \in DOMAIN log : log[i].job = j /\ log[i].op = "extract_segment"
            THEN {Path("seg", j)} ELSE {})
    \cup (IF \E i \in DOMAIN log : log[i].job = j /\ log[i].op = "add_bounce_logo"
            THEN {Path("final", j)} ELSE {})
    \cup (IF \E i \in DOMAIN log : log[i].job = j /\ log[i].op = "process_video"
            THEN {Path("processed", Title(CandOf(j)))} ELSE {})

(* C11: no two jobs ever use the same temporary path: the input, segment   *)
(* and final/processed output paths of different jobs are all different.   *)
C11_TempPathsJobUnique ==
    (VP \/ IS) =>
        \A j \in 1..job : \A k \in 1..job :
            j # k => Used(j) \cap Used(k) = {}

----------------------------------------------------------------------------
(* Process-wide counters (main.py) *)

InCycle(t) == thr[t].pc \in {"drafts_created", "upload_media", "auto_post", "posts_scheduled"}

Quiescent == \A t \in Threads : ~InCycle(t)

Posted == Cardinality({i \in DOMAIN log : log[i].op = "create" /\ log[i].job = 0 /\ log[i].ok})

(* The counters account for every finished cycle: with no cycle in         *)
(* progress, drafts_created is the sum of the draft counts of all cycles   *)
(* and posts_scheduled the number of successful posts.                     *)
CountersExact ==
    (MAIN /\ Quiescent) =>
        /\ stats.drafts_created = Len(Drafts) * cycles
        /\ stats.posts_scheduled = Posted

(* C12: the counters are updated atomically: every update made by the      *)
(* manual /run-cycle cycle, whatever the scheduled cycles do meanwhile,    *)
(* adds the cycle's draft count to the value drafts_created has at that    *)
(* moment, and 1 to the value posts_scheduled has at that moment, so that  *)
(* no update of a concurrent cycle is lost.                                *)
C12_NoLostUpdate ==
    [][/\ (thr["manual_run"].pc = "drafts_created" /\ thr'["manual_run"].pc = "upload_media")
            => stats'.drafts_created = stats.drafts_created + Len(Drafts)
       /\ (thr["manual_run"].pc = "posts_scheduled" /\ thr'["manual_run"].pc = "auto_post")
            => stats'.posts_scheduled = stats.posts_scheduled + 1]_vars

(* C13: the immediate first cycle called by start_scheduler and a cycle    *)
(* fired by the interval timer are never inside run_single_cycle at the    *)
(* same moment.                                                            *)
C13_ScheduledCyclesOneAtATime ==
    MAIN => ~(InCycle("start_scheduler") /\ InCycle("main_cycle"))

----------------------------------------------------------------------------
(* C14: a transcoder invocation or a network call (upload, create,         *)
(* publish) that never returns does not stop the loop: the job can still   *)
(* go on to a failed outcome and the sweep to the next candidate, so the   *)
(* program always has a step to take from inside such a call.              *)
C14_HungCallTimesOut ==
    ((VP \/ IS) /\ pc = "blocked") => ENABLED Next

----------------------------------------------------------------------------
(* call op of job j returned a value (a url, a creation id) before         *)
(* position i of the history                                               *)
Returned(i, op, j) ==
    \E k \in 1..(i - 1) :
        log[k].op = op /\ log[k].job = j /\ log[k].ok /\ log[k].res # None

(* C15: the stages of a job are entered in sequence and only after the     *)
(* preceding one succeeded: overlay only after a successful segment        *)
(* extraction, upload only after a successful overlay (after the           *)
(* successful transcode in instagram_scheduler), create only after an      *)
(* upload that returned a url, publish only after a create that returned   *)
(* a creation id.                                                          *)
C15_StagesStrictlySequential ==
    (VP \/ IS) => \A i \in DOMAIN log :
        LET j == log[i].job IN
        /\ log[i].op = "add_bounce_logo" => Before(i, "extract_segment", j)
        /\ log[i].op = "upload" =>
              Before(i, IF VP THEN "add_bounce_logo" ELSE "process_video", j)
        /\ log[i].op = "create" => Returned(i, "upload", j)
        /\ log[i].op = "publish" => Returned(i, "create", j)

----------------------------------------------------------------------------
(* Segment selection *)

(* extract_segment has chosen a window for the probed duration *)
Selected ==
    \/ prog = "extract_segment" /\ pc = "returned"
    \/ VP /\ \E i \in DOMAIN log : log[i].op = "extract_segment"

(* C16: for every source duration D >= 0 the window [start, end) chosen    *)
(* by extract_segment has end - start <= MAX_DURATION and                  *)
(* 0 <= start <= end <= D, and is [0, 0) when D = 0.                       *)
C16_WindowWithinBounds ==
    Selected =>
        /\ window[2] - window[1] <= MAX_DURATION
        /\ 0 <= window[1] /\ window[1] <= window[2] /\ window[2] <= duration
        /\ duration = 0 => window = <<0, 0>>

C16_Witness ==
    /\ prog = "extract_segment" /\ pc = "returned"
    /\ duration > MAX_DURATION
    /\ window[2] - window[1] = MAX_DURATION

----------------------------------------------------------------------------
(* C18: an upload made while the destination folder id is unconfigured,    *)
(* or of a local file that does not exist, raises: no such upload returns  *)
(* a url or creates a remote object.                                       *)
C18_UploadFailsLoudly ==
    [][/\ \A i \in DOMAIN log' \ DOMAIN log :
            (log'[i].op = "upload" /\ log'[i].ok) =>
                "PROCESSED_FOLDER_ID" \in env /\ log'[i].arg \in tmpfs
       /\ remote' # remote => "PROCESSED_FOLDER_ID" \in env]_vars

----------------------------------------------------------------------------
(* C19: when a required setting is missing, every sweep is aborted before  *)
(* any transcode, upload or publish, and the process keeps running so that *)
(* the next trigger attempts a sweep again.                                *)
C19_MissingSettingAbortsSweep ==
    (VP /\ env # Settings) =>
        /\ pc # "crashed"
        /\ \A i \in DOMAIN log :
              log[i].op \notin {"extract_segment", "add_bounce_logo", "upload",
                                "create", "publish"}

----------------------------------------------------------------------------
(* C20: within one sweep the candidates are processed one at a time in the *)
(* order of the listing: the k-th job of the sweep works on the k-th       *)
(* listed candidate, no more jobs are started than candidates were listed, *)
(* and every call of a job is made before the first call of the next job.  *)
C20_ListingOrderOneAtATime ==
    (VP \/ IS) =>
        /\ job - base <= Len(items)
        /\ \A j \in (base + 1)..job : CandOf(j) = items[j - base]
        /\ \A i \in DOMAIN log : \A k \in DOMAIN log :
              i < k => log[i].job <= log[k].job

C20_Witness ==
    /\ VP /\ job - base >= 2
    /\ \E i \in DOMAIN log : log[i].job = job /\ log[i].op = "extract_segment"
    /\ \E i \in DOMAIN log : log[i].job = job - 1 /\ log[i].op = "publish"

----------------------------------------------------------------------------
(* the listing of the current sweep returned no candidate and the sweep    *)
(* has ended: run_pipeline returned at "if not files", run_scheduler is in *)
(* its sleep(30)                                                           *)
EmptySwept ==
    /\ items = <<>>
    /\ (VP /\ pc = "sleep") \/ (IS /\ pc = "sleep30")

(* C21: a sweep whose listing returns no candidate completes without       *)
(* starting a job (no download, transcode, upload, create or publish call  *)
(* and no temporary file), and the loop then goes on to the next sweep.    *)
C21_EmptySweepCompletes ==
    /\ [](EmptySwept =>
            /\ job = base
            /\ \A i \in DOMAIN log : log[i].job <= base
            /\ \A p \in tmpfs : p[1] # "processed" => p[2] <= base
            /\ ENABLED Next)
    /\ [][EmptySwept => pc' \in {"schedule_daily", "files"}]_vars

C21_Witness ==
    /\ VP /\ EmptySwept /\ job >= 1

----------------------------------------------------------------------------
(* positions of the calls op of job j in the history *)
Calls(op, j) == {i \in DOMAIN log : log[i].op = op /\ log[i].job = j}

(* every stage of job j succeeded: download, segment, overlay, upload with *)
(* a url, delete, create with an id, publish                               *)
AllStagesSucceeded(j) ==
    /\ \A op \in {"GetContentFile", "extract_segment", "add_bounce_logo", "upload",
                  "Delete", "create", "publish"} :
          \E i \in Calls(op, j) : log[i].ok
    /\ \E i \in Calls("upload", j) : log[i].res # None
    /\ \E i \in Calls("create", j) : log[i].res # None

(* C22: when every stage of a job succeeds, exactly one create call is     *)
(* made and it carries the url returned by the upload, exactly one publish *)
(* call is made and it carries the id returned by that create call, and    *)
(* the original is deleted.                                                *)
C22_OneCreateOnePublish ==
    VP => \A j \in 1..job :
        AllStagesSucceeded(j) =>
            /\ Cardinality(Calls("upload", j)) = 1
            /\ Cardinality(Calls("create", j)) = 1
            /\ Cardinality(Calls("publish", j)) = 1
            /\ \A u \in Calls("upload", j) : \A c \in Calls("create", j) :
                  /\ u < c
                  /\ log[c].arg = log[u].res
                  /\ \A p \in Calls("publish", j) :
                        c < p /\ log[p].arg = log[c].res
            /\ CandOf(j) \notin source

C22_Witness ==
    VP /\ \E j \in 1..job : AllStagesSucceeded(j) /\ j < job

----------------------------------------------------------------------------
(* Drafts of one cycle (main.py) *)

Range(s) == {s[k] : k \in DOMAIN s}

(* the upload loop of thread t is over *)
UploadsDone(t) == thr[t].pc \in {"auto_post", "posts_scheduled"}

----------------------------------------------------------------------------
(* Watermark geometry *)

Inside(r, canvas) ==
    /\ 0 <= r.x /\ r.x + r.w <= canvas[1]
    /\ 0 <= r.y /\ r.y + r.h <= canvas[2]

Overlap(a, b) ==
    /\ a.x < b.x + b.w /\ b.x < a.x + a.w
    /\ a.y < b.y + b.h /\ b.y < a.y + a.h

(* C24: for every t in [0, cap] the watermark rectangle at the overlay     *)
(* offset (x(t), y(t)) lies inside the output canvas and inside the        *)
(* padding, without any pixel in common with the live-video region.        *)
C24_WatermarkInPaddingBand ==
    (prog = "overlay" /\ pc = "returned") =>
        /\ Inside(frame.logo, frame.canvas)
        /\ ~Overlap(frame.logo, frame.live)

----------------------------------------------------------------------------
(* Daily schedule *)

(* the first occurrence of hour h at or after time e *)
NextOccurrence(e) ==
    IF e % Day <= hour * 60 THEN (e \div Day) * Day + hour * 60
                            ELSE (e \div Day + 1) * Day + hour * 60

(* C25: in schedule_daily the sleep computed after a sweep is never        *)
(* negative and ends at the next occurrence of hour h that follows the end *)
(* of that sweep, whatever time the sweep took; hence every sweep after    *)
(* the first begins at an occurrence of hour h.                            *)
C25_SleepEndsAtNextOccurrence ==
    prog = "schedule_daily" =>
        /\ pc = "time.sleep" =>
              /\ clock.sleep_seconds >= 0
              /\ clock.ended + clock.sleep_seconds = NextOccurrence(clock.ended)
        /\ (pc = "schedule_daily" /\ clock.sweeps >= 1) =>
              clock.time % Day = hour * 60

----------------------------------------------------------------------------
(* the upload of draft d returned a url *)
UploadReturnedUrl(d) ==
    \E k \in DOMAIN log :
        /\ log[k].op = "upload" /\ log[k].job = 0 /\ log[k].cand = d
        /\ log[k].ok /\ log[k].res # None

----------------------------------------------------------------------------
(* C27: upload_media on a draft without a string under a recognised path   *)
(* key raises before any remote object is created; so a cycle over the     *)
(* drafts of the content engine uploads nothing and posts nothing, every   *)
(* draft ending as failed, and the cycle still runs to its end, where it   *)
(* records last_success.                                                   *)
C27_PathlessDraftsUploadNothing ==
    /\ [](MAIN =>
            /\ \A k \in DOMAIN Drafts : \A o \in {"ok", "raise"} :
                  extract_file_path(Drafts[k]).error # "" =>
                      upload_media(Drafts[k], o) \in {"ValueError", "RuntimeError"}
            /\ remote = {}
            /\ \A i \in DOMAIN log : log[i].op \notin {"upload", "create"}
            /\ stats.posts_scheduled = 0
            /\ \A t \in Threads : InCycle(t) => ENABLED Next)
    /\ [][MAIN => \A t \in Threads :
            (InCycle(t) /\ ~InCycle(t)') =>
                /\ stats'.last_success = 1
                /\ thr'[t].uploaded = <<>>
                /\ Range(thr'[t].failed) = DOMAIN Drafts]_vars

C27_Witness ==
    /\ MAIN /\ stats.last_success = 1 /\ remote = {}
    /\ \E t \in Threads :
          /\ ~InCycle(t)
          /\ Len(thr[t].failed) = Len(Drafts)
          /\ "PROCESSED_FOLDER_ID" \in env

====
